---- MODULE Spec2Model ----
(***************************************************************************)
(* Branch resolution (setupBranch), the credential-refreshing retry        *)
(* wrapper (withTokenRefresh) and the commit-and-push script (run) of      *)
(* claude-code-action, as one sequential task run.                         *)
(*                                                                         *)
(* Strings are sequences of one-character strings, so that toLowerCase,    *)
(* substring, includes and template concatenation are computed.            *)
(* Time is the wall clock in milliseconds; it advances only while the      *)
(* run is suspended in an await.                                           *)
(***************************************************************************)
EXTENDS Integers, Sequences, FiniteSets, TLC

(***************************************************************************)
(* Bounds                                                                  *)
(***************************************************************************)
\* the clock stops advancing at this many milliseconds after the run start
MaxClock == 5400000
\* number of commit-and-push invocations that may follow branch resolution
MaxRuns == 1

(***************************************************************************)
(* String helpers                                                          *)
(***************************************************************************)
EmptyStr == <<>>

\* String.prototype.includes
Includes(s, sub) ==
  \E i \in 0..(Len(s) - Len(sub)) : SubSeq(s, i + 1, i + Len(sub)) = sub

\* String.prototype.substring(0, n)
Substring0(s, n) == IF Len(s) <= n THEN s ELSE SubSeq(s, 1, n)

UpperCaseLetters ==
  <<"A","B","C","D","E","F","G","H","I","J","K","L","M",
    "N","O","P","Q","R","S","T","U","V","W","X","Y","Z">>
LowerCaseLetters ==
  <<"a","b","c","d","e","f","g","h","i","j","k","l","m",
    "n","o","p","q","r","s","t","u","v","w","x","y","z">>

LowerChar(c) ==
  IF \E k \in 1..26 : UpperCaseLetters[k] = c
    THEN LowerCaseLetters[CHOOSE k \in 1..26 : UpperCaseLetters[k] = c]
    ELSE c

\* String.prototype.toLowerCase
toLowerCase(s) == [i \in 1..Len(s) |-> LowerChar(s[i])]

DigitChars == <<"0","1","2","3","4","5","6","7","8","9">>

\* String(n) for a non-negative integer
RECURSIVE NumToStr(_)
NumToStr(n) ==
  IF n < 10 THEN <<DigitChars[n + 1]>>
  ELSE NumToStr(n \div 10) \o <<DigitChars[(n % 10) + 1]>>

\* String.prototype.padStart(width, "0")
RECURSIVE padStart0(_, _)
padStart0(s, width) == IF Len(s) >= width THEN s ELSE padStart0(<<"0">> \o s, width)

Repeat(c, n) == [i \in 1..n |-> c]

(***************************************************************************)
(* Names occurring in the runs                                             *)
(***************************************************************************)
MainBranch == <<"m","a","i","n">>
DevBranch == <<"d","e","v">>
FeatBranch == <<"f","e","a","t">>
PrHeadBranch == <<"p","r","-","h","e","a","d">>
HeadRef == <<"H","E","A","D">>

PrefixClaude == <<"c","l","a","u","d","e","/">>
PrefixMixed == <<"M","y","_","F","i","x","-">>
PrefixLong == Repeat("x", 30) \o <<"/">>

(***************************************************************************)
(* Errors.  An error value is its message; String(error) prepends the      *)
(* error name, as Error.prototype.toString does.                           *)
(***************************************************************************)
ErrorPrefix == <<"E","r","r","o","r",":"," ">>
ErrorToString(msg) == ErrorPrefix \o msg

Msg401 == <<"f","a","t","a","l",":"," ","4","0","1">>
Msg403 == <<"H","T","T","P"," ","4","0","3">>
MsgToken == <<"b","a","d"," ","t","o","k","e","n">>
MsgAuthentication ==
  <<"a","u","t","h","e","n","t","i","c","a","t","i","o","n"," ","f","a","i","l","e","d">>
MsgCapitalised ==
  <<"A","u","t","h","e","n","t","i","c","a","t","i","o","n"," ","T","o","k","e","n">>
MsgTimeout == <<"t","i","m","e","o","u","t">>
MsgNetDown == <<"n","e","t"," ","d","o","w","n">>
MsgServerError == <<"S","e","r","v","e","r"," ","E","r","r","o","r">>
MsgExit == <<"e","x","i","t"," ","1">>

\* failures a networked git operation (fetch, push) may report
OperationFailures ==
  {Msg401, Msg403, MsgToken, MsgAuthentication, MsgCapitalised, MsgTimeout}
\* failures of refreshGitHubToken / reconfigureGitToken
RefreshFailures == {MsgNetDown}

NoError == EmptyStr

TokenRefreshFailedPrefix ==
  <<"T","o","k","e","n"," ","r","e","f","r","e","s","h"," ",
    "f","a","i","l","e","d",":"," ">>
BranchNotFoundPrefix ==
  <<"S","p","e","c","i","f","i","e","d"," ","b","r","a","n","c","h"," ","'">>
BranchNotFoundSuffix ==
  <<"'"," ","d","o","e","s"," ","n","o","t"," ","e","x","i","s","t"," ",
    "i","n"," ","t","h","e"," ","r","e","p","o","s","i","t","o","r","y">>

(***************************************************************************)
(* Event contexts (ParsedGitHubContext and the fetched entity data)        *)
(***************************************************************************)
RelBranch == <<"r","e","l">>

CommitCounts == {5, 20, 37}

EntityKinds ==
  {[isPR |-> FALSE, prState |-> "NONE", commitCount |-> 0]}
  \cup {[isPR |-> TRUE, prState |-> "OPEN", commitCount |-> c] : c \in CommitCounts}
  \cup {[isPR |-> TRUE, prState |-> st, commitCount |-> 5] : st \in {"CLOSED", "MERGED"}}

Context(b, bb, p, n, k, s) ==
  [branch |-> b, baseBranch |-> bb, branchPrefix |-> p, entityNumber |-> n,
   isPR |-> k.isPR, prState |-> k.prState, commitCount |-> k.commitCount,
   headRefName |-> IF k.isPR THEN PrHeadBranch ELSE EmptyStr,
   baseRefName |-> IF k.isPR THEN RelBranch ELSE EmptyStr,
   useCommitSigning |-> s]

\* branch prefixes and entity numbers of the contexts that generate a name
NameInputs ==
  {<<PrefixClaude, 42>>, <<PrefixClaude, 7>>, <<PrefixMixed, 42>>,
   <<PrefixLong, 1234>>}

\* the prefix and the entity number vary where a branch name is generated
Contexts ==
  {Context(EmptyStr, bb, pn[1], pn[2], k, s) :
      bb \in {EmptyStr, DevBranch}, pn \in NameInputs,
      k \in {e \in EntityKinds : e.prState # "OPEN"}, s \in BOOLEAN}
  \cup {Context(EmptyStr, bb, PrefixClaude, 42, k, s) :
      bb \in {EmptyStr, DevBranch},
      k \in {e \in EntityKinds : e.prState = "OPEN"}, s \in BOOLEAN}
  \cup {Context(FeatBranch, bb, PrefixClaude, 42, k, s) :
      bb \in {EmptyStr, DevBranch}, k \in EntityKinds, s \in BOOLEAN}

\* data.default_branch of the repository
DefaultBranch == MainBranch
\* branches the job's working tree may be on when the action starts
InitialCheckouts == {MainBranch, PrHeadBranch}

\* how long an awaited call may take, in milliseconds
Durations == {0, 2699999, 2700000}

(***************************************************************************)
(* State                                                                   *)
(***************************************************************************)
VARIABLES
  ctx,              \* the event context of the run
  now,              \* Date.now()
  pc,               \* position of the task run
  lastRefreshTime,  \* lastRefreshTime.value of the cell in use
  lastCredentialTime, \* when the credential in use was acquired or last refreshed
  wtr,              \* the withTokenRefresh call in progress, until its caller resumes
  checkedOut,       \* branch the local working tree is on
  localBranches,    \* branches created locally by git checkout -b
  remotePushed,     \* branches pushed to origin during the run
  gitLog,           \* git commands completed so far, in order
  apiLog,           \* hosting-API responses received so far, in order
  outputLog,        \* core.setOutput calls, in order
  branchInfo,       \* value returned by setupBranch
  thrown,           \* message of the error the run failed with
  newBranch,        \* generated branch name of the synthesis path
  sourceBranch,     \* source branch of the synthesis path
  dirty,            \* the working tree has uncommitted changes
  unpushed,         \* local commits created and not pushed
  claudeBranchEnv,  \* process.env.CLAUDE_BRANCH of the commit script
  runs              \* commit-and-push invocations started

vars == <<ctx, now, pc, lastRefreshTime, lastCredentialTime, wtr, checkedOut, localBranches,
          remotePushed, gitLog, apiLog, outputLog, branchInfo, thrown,
          newBranch, sourceBranch, dirty, unpushed, claudeBranchEnv, runs>>

NoOp == [cmd |-> "none", branch |-> EmptyStr, depth |-> 0]
NoBranchInfo ==
  [returned |-> FALSE, baseBranch |-> EmptyStr, claudeBranch |-> EmptyStr,
   currentBranch |-> EmptyStr]

IdleCall ==
  [pc |-> "idle", op |-> NoOp, opCalls |-> 0, refreshCalls |-> 0,
   startNow |-> 0, startLast |-> 0, preflight |-> FALSE,
   nowAtFirstCall |-> 0, lastAtFirstCall |-> 0, lastAtFailure |-> 0,
   firstError |-> NoError, error |-> NoError, result |-> 0,
   refreshFailed |-> "none", refreshCause |-> NoError]

Init ==
  /\ ctx \in Contexts
  /\ now = 0
  /\ pc = "start"
  /\ lastRefreshTime = 0
  /\ lastCredentialTime = 0
  /\ wtr = IdleCall
  /\ checkedOut \in InitialCheckouts
  /\ localBranches = {}
  /\ remotePushed = {}
  /\ gitLog = <<>>
  /\ apiLog = <<>>
  /\ outputLog = <<>>
  /\ branchInfo = NoBranchInfo
  /\ thrown = NoError
  /\ newBranch = EmptyStr
  /\ sourceBranch = EmptyStr
  /\ dirty = FALSE
  /\ unpushed = 0
  /\ claudeBranchEnv = EmptyStr
  /\ runs = 0

\* the clock after an awaited call that took d milliseconds
Elapse(d) == d \in Durations /\ now + d <= MaxClock /\ now' = now + d

GitEntry(cmd, branch, depth, ok) ==
  [cmd |-> cmd, branch |-> branch, depth |-> depth, ok |-> ok]

(***************************************************************************)
(* token-refresh.ts                                                        *)
(***************************************************************************)
REFRESH_THRESHOLD_MS == 45 * 60 * 1000

\* variant: the threshold itself does not count as expired
shouldRefreshToken_Exclusive(last, dateNow) ==
  LET elapsed == dateNow - last
  IN  elapsed > REFRESH_THRESHOLD_MS

\* dateNow is the value Date.now() returns inside the function
shouldRefreshToken(last, dateNow) ==
  LET elapsed == dateNow - last
  IN  elapsed >= REFRESH_THRESHOLD_MS

\* new Error(`Token refresh failed: ${error}`)
RefreshFailedError(cause) == TokenRefreshFailedPrefix \o ErrorToString(cause)

\* variant: the match ignores case
IsAuthFailure_IgnoreCase(errorMessage) ==
  \/ Includes(toLowerCase(errorMessage), <<"a","u","t","h","e","n","t","i","c","a","t","i","o","n">>)
  \/ Includes(toLowerCase(errorMessage), <<"4","0","1">>)
  \/ Includes(toLowerCase(errorMessage), <<"4","0","3">>)
  \/ Includes(toLowerCase(errorMessage), <<"t","o","k","e","n">>)

\* the catch clause's test of String(error)
IsAuthFailure(errorMessage) ==
  \/ Includes(errorMessage, <<"a","u","t","h","e","n","t","i","c","a","t","i","o","n">>)
  \/ Includes(errorMessage, <<"4","0","1">>)
  \/ Includes(errorMessage, <<"4","0","3">>)
  \/ Includes(errorMessage, <<"t","o","k","e","n">>)

\* withTokenRefresh up to its first await: the freshness check, then either
\* the refresh or the operation is started
\* the call is made at time dateNow with the cell holding last
withTokenRefreshCall(op, last, dateNow) ==
  IF shouldRefreshToken(last, dateNow)
    THEN [IdleCall EXCEPT !.pc = "preflight", !.op = op, !.refreshCalls = 1,
                          !.startNow = dateNow, !.startLast = last,
                          !.preflight = TRUE]
    ELSE [IdleCall EXCEPT !.pc = "op1", !.op = op, !.opCalls = 1,
                          !.startNow = dateNow, !.startLast = last,
                          !.preflight = FALSE,
                          !.nowAtFirstCall = dateNow, !.lastAtFirstCall = last]

\* what a completed git operation changes outside the call
OperationEffect(op, ok) ==
  /\ gitLog' = Append(gitLog, GitEntry(op.cmd, op.branch, op.depth, ok))
  /\ remotePushed' =
       IF ok /\ op.cmd \in {"push", "push -u"}
         THEN remotePushed \cup {IF op.branch = HeadRef THEN checkedOut ELSE op.branch}
         ELSE remotePushed
  /\ unpushed' = IF ok /\ op.cmd \in {"push", "push -u"} THEN 0 ELSE unpushed

CallFrame ==
  <<ctx, pc, apiLog, checkedOut, localBranches, outputLog, branchInfo, thrown,
    newBranch, sourceBranch, dirty, claudeBranchEnv, runs>>

\* variant: the cell is not updated after the pre-flight refresh
PreflightRefreshSucceeds_NoCellUpdate ==
  /\ wtr.pc = "preflight"
  /\ \E d \in Durations : Elapse(d)
  /\ lastRefreshTime' = lastRefreshTime
  /\ wtr' = [wtr EXCEPT !.pc = "op1", !.opCalls = @ + 1,
                        !.nowAtFirstCall = now',
                        !.lastAtFirstCall = lastRefreshTime']
  /\ UNCHANGED <<CallFrame, gitLog, remotePushed, unpushed>>
  /\ lastCredentialTime' = now'

\* line 289-290: the pre-flight refresh resolves, the operation is invoked
PreflightRefreshSucceeds ==
  /\ wtr.pc = "preflight"
  /\ \E d \in Durations : Elapse(d)
  /\ lastRefreshTime' = now'
  /\ wtr' = [wtr EXCEPT !.pc = "op1", !.opCalls = @ + 1,
                        !.nowAtFirstCall = now',
                        !.lastAtFirstCall = lastRefreshTime']
  /\ UNCHANGED <<CallFrame, gitLog, remotePushed, unpushed>>
  /\ lastCredentialTime' = now'

\* line 289: the pre-flight refresh rejects, outside the try block
PreflightRefreshFails ==
  /\ wtr.pc = "preflight"
  /\ \E d \in Durations : Elapse(d)
  /\ \E cause \in RefreshFailures :
       wtr' = [wtr EXCEPT !.pc = "threw", !.error = RefreshFailedError(cause),
                         !.refreshFailed = "preflight", !.refreshCause = cause]
  /\ UNCHANGED <<CallFrame, lastRefreshTime, gitLog, remotePushed, unpushed>>
  /\ UNCHANGED lastCredentialTime

\* line 294: the first invocation resolves
OperationSucceeds ==
  /\ wtr.pc = "op1"
  /\ \E d \in Durations : Elapse(d)
  /\ OperationEffect(wtr.op, TRUE)
  /\ wtr' = [wtr EXCEPT !.pc = "returned", !.result = 1]
  /\ UNCHANGED <<CallFrame, lastRefreshTime>>
  /\ UNCHANGED lastCredentialTime

\* variant: an authentication failure is retried without a refresh
OperationFails_RetryWithoutRefresh ==
  /\ wtr.pc = "op1"
  /\ \E d \in Durations : Elapse(d)
  /\ OperationEffect(wtr.op, FALSE)
  /\ \E error \in OperationFailures :
       wtr' = IF IsAuthFailure(ErrorToString(error))
                THEN [wtr EXCEPT !.pc = "op2", !.opCalls = @ + 1,
                                 !.firstError = error,
                                 !.lastAtFailure = lastRefreshTime]
                ELSE [wtr EXCEPT !.pc = "threw", !.firstError = error,
                                 !.error = error,
                                 !.lastAtFailure = lastRefreshTime]
  /\ UNCHANGED <<CallFrame, lastRefreshTime>>
  /\ UNCHANGED lastCredentialTime

\* lines 295-320: the first invocation rejects
OperationFails ==
  /\ wtr.pc = "op1"
  /\ \E d \in Durations : Elapse(d)
  /\ OperationEffect(wtr.op, FALSE)
  /\ \E error \in OperationFailures :
       wtr' = IF IsAuthFailure(ErrorToString(error))
                THEN [wtr EXCEPT !.pc = "recovery", !.refreshCalls = @ + 1,
                                 !.firstError = error,
                                 !.lastAtFailure = lastRefreshTime]
                ELSE [wtr EXCEPT !.pc = "threw", !.firstError = error,
                                 !.error = error,
                                 !.lastAtFailure = lastRefreshTime]
  /\ UNCHANGED <<CallFrame, lastRefreshTime>>
  /\ UNCHANGED lastCredentialTime

\* lines 309-311: the recovery refresh resolves, the operation is re-invoked
RecoveryRefreshSucceeds ==
  /\ wtr.pc = "recovery"
  /\ \E d \in Durations : Elapse(d)
  /\ lastRefreshTime' = now'
  /\ wtr' = [wtr EXCEPT !.pc = "op2", !.opCalls = @ + 1]
  /\ UNCHANGED <<CallFrame, gitLog, remotePushed, unpushed>>
  /\ lastCredentialTime' = now'

\* variant: the operation's original error is thrown after a failed refresh
RecoveryRefreshFails_ThrowsOriginal ==
  /\ wtr.pc = "recovery"
  /\ \E d \in Durations : Elapse(d)
  /\ \E cause \in RefreshFailures :
       wtr' = [wtr EXCEPT !.pc = "threw", !.error = wtr.firstError,
                         !.refreshFailed = "recovery", !.refreshCause = cause]
  /\ UNCHANGED <<CallFrame, lastRefreshTime, gitLog, remotePushed, unpushed>>
  /\ UNCHANGED lastCredentialTime

\* lines 309, 312-314: the recovery refresh rejects
RecoveryRefreshFails ==
  /\ wtr.pc = "recovery"
  /\ \E d \in Durations : Elapse(d)
  /\ \E cause \in RefreshFailures :
       wtr' = [wtr EXCEPT !.pc = "threw", !.error = RefreshFailedError(cause),
                         !.refreshFailed = "recovery", !.refreshCause = cause]
  /\ UNCHANGED <<CallFrame, lastRefreshTime, gitLog, remotePushed, unpushed>>
  /\ UNCHANGED lastCredentialTime

\* line 311: the second invocation resolves
RetrySucceeds ==
  /\ wtr.pc = "op2"
  /\ \E d \in Durations : Elapse(d)
  /\ OperationEffect(wtr.op, TRUE)
  /\ wtr' = [wtr EXCEPT !.pc = "returned", !.result = 2]
  /\ UNCHANGED <<CallFrame, lastRefreshTime>>
  /\ UNCHANGED lastCredentialTime

\* variant: a retry that fails with an authentication failure is retried again
RetryFails_RetriesAgain ==
  /\ wtr.pc = "op2"
  /\ \E d \in Durations : Elapse(d)
  /\ OperationEffect(wtr.op, FALSE)
  /\ \E retryError \in OperationFailures :
       wtr' = IF IsAuthFailure(ErrorToString(retryError)) /\ wtr.refreshCalls < 4
                THEN [wtr EXCEPT !.pc = "recovery", !.refreshCalls = @ + 1]
                ELSE [wtr EXCEPT !.pc = "threw", !.error = retryError]
  /\ UNCHANGED <<CallFrame, lastRefreshTime>>
  /\ UNCHANGED lastCredentialTime

\* lines 311-314: the second invocation rejects; retryError is rethrown
RetryFails ==
  /\ wtr.pc = "op2"
  /\ \E d \in Durations : Elapse(d)
  /\ OperationEffect(wtr.op, FALSE)
  /\ \E retryError \in OperationFailures :
       wtr' = [wtr EXCEPT !.pc = "threw", !.error = retryError]
  /\ UNCHANGED <<CallFrame, lastRefreshTime>>
  /\ UNCHANGED lastCredentialTime

withTokenRefresh ==
  \/ PreflightRefreshSucceeds
  \/ PreflightRefreshFails
  \/ OperationSucceeds
  \/ OperationFails
  \/ RecoveryRefreshSucceeds
  \/ RecoveryRefreshFails
  \/ RetrySucceeds
  \/ RetryFails

(***************************************************************************)
(* branch.ts                                                               *)
(***************************************************************************)
\* values new Date() may show when the branch name is generated
Dates ==
  {[year |-> 2024, month |-> 2, date |-> 15, hours |-> 14, minutes |-> 30],
   [year |-> 2025, month |-> 11, date |-> 1, hours |-> 0, minutes |-> 5]}

\* line 157
Timestamp(d) ==
  NumToStr(d.year) \o padStart0(NumToStr(d.month + 1), 2)
    \o padStart0(NumToStr(d.date), 2) \o <<"-">>
    \o padStart0(NumToStr(d.hours), 2) \o padStart0(NumToStr(d.minutes), 2)

\* line 153
EntityType(isPR) == IF isPR THEN <<"p","r">> ELSE <<"i","s","s","u","e">>

\* line 164
BranchName(prefix, isPR, entityNumber, d) ==
  prefix \o EntityType(isPR) \o <<"-">> \o NumToStr(entityNumber)
    \o <<"-">> \o Timestamp(d)

\* line 165
NewBranchName(prefix, isPR, entityNumber, d) ==
  Substring0(toLowerCase(BranchName(prefix, isPR, entityNumber, d)), 50)

\* variant: the smaller of the two is taken
FetchDepth_Min(commitCount) == IF commitCount <= 20 THEN commitCount ELSE 20

\* line 110
FetchDepth(commitCount) == IF commitCount >= 20 THEN commitCount ELSE 20

\* lines 49-51
BranchNotFoundError(branch) ==
  BranchNotFoundPrefix \o branch \o BranchNotFoundSuffix

FetchOp(branch, depth) == [cmd |-> "fetch", branch |-> branch, depth |-> depth]
PushOp(cmd, branch) == [cmd |-> cmd, branch |-> branch, depth |-> 0]

BranchInfo(base, claude, current) ==
  [returned |-> TRUE, baseBranch |-> base, claudeBranch |-> claude,
   currentBranch |-> current]

\* core.setOutput("CLAUDE_BRANCH", claude); core.setOutput("BASE_BRANCH", base)
SetBranchOutputs(claude, base) ==
  outputLog' = outputLog \o <<<<"CLAUDE_BRANCH", claude>>, <<"BASE_BRANCH", base>>>>

Repo == <<localBranches, remotePushed, dirty, unpushed>>
Script == <<claudeBranchEnv, runs>>

\* variant: the open pull request is tested before the branch override
SetupBranchStart_PrFirst ==
  /\ pc = "start"
  /\ lastRefreshTime' = now
  /\ IF ctx.isPR /\ ~(ctx.prState = "CLOSED" \/ ctx.prState = "MERGED")
       THEN /\ wtr' = withTokenRefreshCall(
                        FetchOp(ctx.headRefName, FetchDepth(ctx.commitCount)),
                        now, now)
            /\ pc' = "pr_fetch"
            /\ UNCHANGED <<newBranch, sourceBranch>>
       ELSE IF ctx.branch # EmptyStr
       THEN /\ pc' = "getBranch"
            /\ UNCHANGED <<wtr, newBranch, sourceBranch>>
       ELSE IF ctx.baseBranch # EmptyStr
       THEN /\ sourceBranch' = ctx.baseBranch
            /\ \E d \in Dates :
                 newBranch' = NewBranchName(ctx.branchPrefix, ctx.isPR,
                                            ctx.entityNumber, d)
            /\ pc' = "getRef"
            /\ UNCHANGED wtr
       ELSE /\ pc' = "repos_get"
            /\ UNCHANGED <<wtr, newBranch, sourceBranch>>
  /\ UNCHANGED <<ctx, apiLog, now, checkedOut, Repo, gitLog, outputLog, branchInfo,
                 thrown, Script>>
  /\ UNCHANGED lastCredentialTime

\* lines 29-36, 92-122, 137-173: setupBranch up to its first await
SetupBranchStart ==
  /\ pc = "start"
  /\ lastRefreshTime' = now
  /\ IF ctx.branch # EmptyStr
       THEN /\ pc' = "getBranch"
            /\ UNCHANGED <<wtr, newBranch, sourceBranch>>
       ELSE IF ctx.isPR /\ ~(ctx.prState = "CLOSED" \/ ctx.prState = "MERGED")
       THEN /\ wtr' = withTokenRefreshCall(
                        FetchOp(ctx.headRefName, FetchDepth(ctx.commitCount)),
                        now, now)
            /\ pc' = "pr_fetch"
            /\ UNCHANGED <<newBranch, sourceBranch>>
       ELSE IF ctx.baseBranch # EmptyStr
       THEN /\ sourceBranch' = ctx.baseBranch
            /\ \E d \in Dates :
                 newBranch' = NewBranchName(ctx.branchPrefix, ctx.isPR,
                                            ctx.entityNumber, d)
            /\ pc' = "getRef"
            /\ UNCHANGED wtr
       ELSE /\ pc' = "repos_get"
            /\ UNCHANGED <<wtr, newBranch, sourceBranch>>
  /\ UNCHANGED <<ctx, apiLog, now, checkedOut, Repo, gitLog, outputLog, branchInfo,
                 thrown, Script>>
  /\ UNCHANGED lastCredentialTime

\* lines 41-46, 57-62: the branch exists; the fetch is started
GetBranchSucceeds ==
  /\ pc = "getBranch"
  /\ \E d \in Durations : Elapse(d)
  /\ apiLog' = Append(apiLog, <<"getBranch", 200>>)
  /\ wtr' = withTokenRefreshCall(FetchOp(ctx.branch, 0), lastRefreshTime, now')
  /\ pc' = "explicit_fetch"
  /\ UNCHANGED <<ctx, lastRefreshTime, checkedOut, Repo, gitLog, outputLog,
                 branchInfo, thrown, newBranch, sourceBranch, Script>>
  /\ UNCHANGED lastCredentialTime

\* variant: a 404 from the lookup is swallowed and the fetch is started
GetBranchNotFound_Swallowed ==
  /\ pc = "getBranch"
  /\ \E d \in Durations : Elapse(d)
  /\ apiLog' = Append(apiLog, <<"getBranch", 404>>)
  /\ wtr' = withTokenRefreshCall(FetchOp(ctx.branch, 0), lastRefreshTime, now')
  /\ pc' = "explicit_fetch"
  /\ UNCHANGED <<ctx, lastRefreshTime, checkedOut, Repo, gitLog, outputLog,
                 branchInfo, thrown, newBranch, sourceBranch, Script>>
  /\ UNCHANGED lastCredentialTime

\* lines 47-52: the lookup reports 404
GetBranchNotFound ==
  /\ pc = "getBranch"
  /\ \E d \in Durations : Elapse(d)
  /\ apiLog' = Append(apiLog, <<"getBranch", 404>>)
  /\ thrown' = BranchNotFoundError(ctx.branch)
  /\ pc' = "failed"
  /\ UNCHANGED <<ctx, lastRefreshTime, wtr, checkedOut, Repo, gitLog,
                 outputLog, branchInfo, newBranch, sourceBranch, Script>>
  /\ UNCHANGED lastCredentialTime

\* line 53: any other lookup failure is rethrown
GetBranchFails ==
  /\ pc = "getBranch"
  /\ \E d \in Durations : Elapse(d)
  /\ apiLog' = Append(apiLog, <<"getBranch", 500>>)
  /\ thrown' = MsgServerError
  /\ pc' = "failed"
  /\ UNCHANGED <<ctx, lastRefreshTime, wtr, checkedOut, Repo, gitLog,
                 outputLog, branchInfo, newBranch, sourceBranch, Script>>
  /\ UNCHANGED lastCredentialTime

\* lines 57-62, 117-122: withTokenRefresh rejected outside any try block
FetchThrows ==
  /\ pc \in {"explicit_fetch", "pr_fetch"}
  /\ wtr.pc = "threw"
  /\ thrown' = wtr.error
  /\ wtr' = IdleCall
  /\ pc' = "failed"
  /\ UNCHANGED <<ctx, apiLog, now, lastRefreshTime, checkedOut, Repo, gitLog,
                 outputLog, branchInfo, newBranch, sourceBranch, Script>>
  /\ UNCHANGED lastCredentialTime

\* lines 63-89: git checkout of the provided branch succeeds
ExplicitCheckoutSucceeds ==
  /\ pc = "explicit_fetch"
  /\ wtr.pc = "returned"
  /\ \E d \in Durations : Elapse(d)
  /\ checkedOut' = ctx.branch
  /\ gitLog' = Append(gitLog, GitEntry("checkout", ctx.branch, 0, TRUE))
  /\ IF ctx.baseBranch # EmptyStr
       THEN /\ SetBranchOutputs(ctx.branch, ctx.baseBranch)
            /\ branchInfo' = BranchInfo(ctx.baseBranch, ctx.branch, ctx.branch)
            /\ pc' = "resolved"
       ELSE /\ pc' = "explicit_repos_get"
            /\ UNCHANGED <<outputLog, branchInfo>>
  /\ wtr' = IdleCall
  /\ UNCHANGED <<ctx, apiLog, lastRefreshTime, Repo, thrown, newBranch,
                 sourceBranch, Script>>
  /\ UNCHANGED lastCredentialTime

\* lines 63, 123: git checkout rejects outside any try block
CheckoutFails ==
  /\ pc \in {"explicit_fetch", "pr_fetch"}
  /\ wtr.pc = "returned"
  /\ \E d \in Durations : Elapse(d)
  /\ gitLog' = Append(gitLog, GitEntry("checkout", wtr.op.branch, 0, FALSE))
  /\ thrown' = MsgExit
  /\ wtr' = IdleCall
  /\ pc' = "failed"
  /\ UNCHANGED <<ctx, apiLog, lastRefreshTime, checkedOut, Repo, outputLog,
                 branchInfo, newBranch, sourceBranch, Script>>
  /\ UNCHANGED lastCredentialTime

\* lines 74-89: the default branch is the base branch
ExplicitReposGetSucceeds ==
  /\ pc = "explicit_repos_get"
  /\ \E d \in Durations : Elapse(d)
  /\ apiLog' = Append(apiLog, <<"repos.get", 200>>)
  /\ SetBranchOutputs(ctx.branch, DefaultBranch)
  /\ branchInfo' = BranchInfo(DefaultBranch, ctx.branch, ctx.branch)
  /\ pc' = "resolved"
  /\ UNCHANGED <<ctx, lastRefreshTime, wtr, checkedOut, Repo, gitLog, thrown,
                 newBranch, sourceBranch, Script>>
  /\ UNCHANGED lastCredentialTime

\* lines 74, 145: repos.get rejects outside any try block
ReposGetFails ==
  /\ pc \in {"explicit_repos_get", "repos_get"}
  /\ \E d \in Durations : Elapse(d)
  /\ apiLog' = Append(apiLog, <<"repos.get", 500>>)
  /\ thrown' = MsgServerError
  /\ pc' = "failed"
  /\ UNCHANGED <<ctx, lastRefreshTime, wtr, checkedOut, Repo, gitLog,
                 outputLog, branchInfo, newBranch, sourceBranch, Script>>
  /\ UNCHANGED lastCredentialTime

\* variant: the head branch is also returned as claudeBranch
PrCheckoutSucceeds_SetsClaudeBranch ==
  /\ pc = "pr_fetch"
  /\ wtr.pc = "returned"
  /\ \E d \in Durations : Elapse(d)
  /\ checkedOut' = ctx.headRefName
  /\ gitLog' = Append(gitLog, GitEntry("checkout", ctx.headRefName, 0, TRUE))
  /\ branchInfo' = BranchInfo(ctx.baseRefName, ctx.headRefName, ctx.headRefName)
  /\ wtr' = IdleCall
  /\ pc' = "resolved"
  /\ UNCHANGED <<ctx, apiLog, lastRefreshTime, Repo, outputLog, thrown,
                 newBranch, sourceBranch, Script>>
  /\ UNCHANGED lastCredentialTime

\* lines 123-133: git checkout of the pull request's head branch succeeds
PrCheckoutSucceeds ==
  /\ pc = "pr_fetch"
  /\ wtr.pc = "returned"
  /\ \E d \in Durations : Elapse(d)
  /\ checkedOut' = ctx.headRefName
  /\ gitLog' = Append(gitLog, GitEntry("checkout", ctx.headRefName, 0, TRUE))
  /\ branchInfo' = BranchInfo(ctx.baseRefName, EmptyStr, ctx.headRefName)
  /\ wtr' = IdleCall
  /\ pc' = "resolved"
  /\ UNCHANGED <<ctx, apiLog, lastRefreshTime, Repo, outputLog, thrown,
                 newBranch, sourceBranch, Script>>
  /\ UNCHANGED lastCredentialTime

\* lines 145-173: the default branch is the source branch; the name is built
ReposGetSucceeds ==
  /\ pc = "repos_get"
  /\ \E d \in Durations : Elapse(d)
  /\ apiLog' = Append(apiLog, <<"repos.get", 200>>)
  /\ sourceBranch' = DefaultBranch
  /\ \E d \in Dates :
       newBranch' = NewBranchName(ctx.branchPrefix, ctx.isPR, ctx.entityNumber, d)
  /\ pc' = "getRef"
  /\ UNCHANGED <<ctx, lastRefreshTime, wtr, checkedOut, Repo, gitLog,
                 outputLog, branchInfo, thrown, Script>>
  /\ UNCHANGED lastCredentialTime

\* variant: the signing flag is not consulted
GetRefSucceeds_IgnoresSigning ==
  /\ pc = "getRef"
  /\ \E d \in Durations : Elapse(d)
  /\ apiLog' = Append(apiLog, <<"getRef", 200>>)
  /\ pc' = "checkout_b"
  /\ UNCHANGED <<outputLog, branchInfo>>
  /\ UNCHANGED <<ctx, lastRefreshTime, wtr, checkedOut, Repo, gitLog, thrown,
                 newBranch, sourceBranch, Script>>
  /\ UNCHANGED lastCredentialTime

\* lines 169-200: the source branch resolves
GetRefSucceeds ==
  /\ pc = "getRef"
  /\ \E d \in Durations : Elapse(d)
  /\ apiLog' = Append(apiLog, <<"getRef", 200>>)
  /\ IF ctx.useCommitSigning
       THEN /\ SetBranchOutputs(newBranch, sourceBranch)
            /\ branchInfo' = BranchInfo(sourceBranch, newBranch, sourceBranch)
            /\ pc' = "resolved"
       ELSE /\ pc' = "checkout_b"
            /\ UNCHANGED <<outputLog, branchInfo>>
  /\ UNCHANGED <<ctx, lastRefreshTime, wtr, checkedOut, Repo, gitLog, thrown,
                 newBranch, sourceBranch, Script>>
  /\ UNCHANGED lastCredentialTime

\* variant: the failed ref lookup is ignored and the branch is created
GetRefFails_Ignored ==
  /\ pc = "getRef"
  /\ \E d \in Durations : Elapse(d)
  /\ \E status \in {404, 500} : apiLog' = Append(apiLog, <<"getRef", status>>)
  /\ pc' = "checkout_b"
  /\ UNCHANGED <<ctx, lastRefreshTime, wtr, checkedOut, Repo, gitLog,
                 outputLog, branchInfo, thrown, newBranch, sourceBranch, Script>>
  /\ UNCHANGED lastCredentialTime

\* lines 169-173, 222-225: the ref lookup rejects; the catch clause exits
GetRefFails ==
  /\ pc = "getRef"
  /\ \E d \in Durations : Elapse(d)
  /\ \E status \in {404, 500} : apiLog' = Append(apiLog, <<"getRef", status>>)
  /\ pc' = "exited"
  /\ UNCHANGED <<ctx, lastRefreshTime, wtr, checkedOut, Repo, gitLog,
                 outputLog, branchInfo, thrown, newBranch, sourceBranch, Script>>
  /\ UNCHANGED lastCredentialTime

\* variant: the source branch is pushed instead of the new branch
CheckoutNewBranchSucceeds_PushesSource ==
  /\ pc = "checkout_b"
  /\ \E d \in Durations : Elapse(d)
  /\ checkedOut' = newBranch
  /\ localBranches' = localBranches \cup {newBranch}
  /\ gitLog' = Append(gitLog, GitEntry("checkout -b", newBranch, 0, TRUE))
  /\ wtr' = withTokenRefreshCall(PushOp("push -u", sourceBranch), lastRefreshTime, now')
  /\ pc' = "push_new"
  /\ UNCHANGED <<ctx, apiLog, lastRefreshTime, remotePushed, dirty, unpushed,
                 outputLog, branchInfo, thrown, newBranch, sourceBranch, Script>>
  /\ UNCHANGED lastCredentialTime

\* lines 200-208: the branch is created and checked out; the push is started
CheckoutNewBranchSucceeds ==
  /\ pc = "checkout_b"
  /\ \E d \in Durations : Elapse(d)
  /\ checkedOut' = newBranch
  /\ localBranches' = localBranches \cup {newBranch}
  /\ gitLog' = Append(gitLog, GitEntry("checkout -b", newBranch, 0, TRUE))
  /\ wtr' = withTokenRefreshCall(PushOp("push -u", newBranch), lastRefreshTime, now')
  /\ pc' = "push_new"
  /\ UNCHANGED <<ctx, apiLog, lastRefreshTime, remotePushed, dirty, unpushed,
                 outputLog, branchInfo, thrown, newBranch, sourceBranch, Script>>
  /\ UNCHANGED lastCredentialTime

\* lines 200, 222-225
CheckoutNewBranchFails ==
  /\ pc = "checkout_b"
  /\ \E d \in Durations : Elapse(d)
  /\ gitLog' = Append(gitLog, GitEntry("checkout -b", newBranch, 0, FALSE))
  /\ pc' = "exited"
  /\ UNCHANGED <<ctx, apiLog, lastRefreshTime, wtr, checkedOut, Repo, outputLog,
                 branchInfo, thrown, newBranch, sourceBranch, Script>>
  /\ UNCHANGED lastCredentialTime

\* lines 203-208, 222-225: the push rejects inside the try block
PushNewBranchThrows ==
  /\ pc = "push_new"
  /\ wtr.pc = "threw"
  /\ wtr' = IdleCall
  /\ pc' = "exited"
  /\ UNCHANGED <<ctx, apiLog, now, lastRefreshTime, checkedOut, Repo, gitLog,
                 outputLog, branchInfo, thrown, newBranch, sourceBranch, Script>>
  /\ UNCHANGED lastCredentialTime

\* lines 210-221
PushNewBranchReturns ==
  /\ pc = "push_new"
  /\ wtr.pc = "returned"
  /\ SetBranchOutputs(newBranch, sourceBranch)
  /\ branchInfo' = BranchInfo(sourceBranch, newBranch, newBranch)
  /\ wtr' = IdleCall
  /\ pc' = "resolved"
  /\ UNCHANGED <<ctx, apiLog, now, lastRefreshTime, checkedOut, Repo, gitLog,
                 thrown, newBranch, sourceBranch, Script>>
  /\ UNCHANGED lastCredentialTime

setupBranch ==
  \/ SetupBranchStart
  \/ GetBranchSucceeds
  \/ GetBranchNotFound
  \/ GetBranchFails
  \/ FetchThrows
  \/ ExplicitCheckoutSucceeds
  \/ CheckoutFails
  \/ ExplicitReposGetSucceeds
  \/ ReposGetFails
  \/ PrCheckoutSucceeds
  \/ ReposGetSucceeds
  \/ GetRefSucceeds
  \/ GetRefFails
  \/ CheckoutNewBranchSucceeds
  \/ CheckoutNewBranchFails
  \/ PushNewBranchThrows
  \/ PushNewBranchReturns

(***************************************************************************)
(* The commit-and-push script                                              *)
(***************************************************************************)
\* the last value set for a named output, EmptyStr when it was never set
RECURSIVE OutputValue(_, _)
OutputValue(log, name) ==
  IF log = <<>> THEN EmptyStr
  ELSE IF log[Len(log)][1] = name THEN log[Len(log)][2]
  ELSE OutputValue(SubSeq(log, 1, Len(log) - 1), name)

Branch == <<checkedOut, branchInfo, newBranch, sourceBranch>>

\* lines 15-26: the script starts after branch resolution or an earlier run;
\* the agent may have changed files in between
RunStart ==
  /\ pc \in {"resolved", "run_done"}
  /\ runs < MaxRuns
  /\ runs' = runs + 1
  /\ claudeBranchEnv' = OutputValue(outputLog, "CLAUDE_BRANCH")
  /\ lastRefreshTime' = now
  /\ dirty' \in BOOLEAN
  /\ pc' = "git_config"
  /\ UNCHANGED <<ctx, apiLog, now, wtr, localBranches, remotePushed, unpushed, gitLog,
                 outputLog, thrown, Branch>>
  /\ UNCHANGED lastCredentialTime

\* lines 25-29: git config resolves twice; git status is started
GitConfigSucceeds ==
  /\ pc = "git_config"
  /\ \E d \in Durations : Elapse(d)
  /\ gitLog' = Append(gitLog, GitEntry("config", EmptyStr, 0, TRUE))
  /\ pc' = "git_status"
  /\ UNCHANGED <<ctx, apiLog, lastRefreshTime, wtr, Repo, outputLog, thrown, Branch,
                 Script>>
  /\ UNCHANGED lastCredentialTime

\* lines 73-77: a local command rejects; the catch clause reports and exits
LocalCommandFails ==
  /\ pc \in {"git_config", "git_status", "git_add", "git_commit"}
  /\ \E d \in Durations : Elapse(d)
  /\ gitLog' = Append(gitLog,
       GitEntry(CASE pc = "git_config" -> "config"
                  [] pc = "git_status" -> "status"
                  [] pc = "git_add" -> "add"
                  [] pc = "git_commit" -> "commit", EmptyStr, 0, FALSE))
  /\ thrown' = MsgExit
  /\ pc' = "run_failed"
  /\ UNCHANGED <<ctx, apiLog, lastRefreshTime, wtr, Repo, outputLog, Branch, Script>>
  /\ UNCHANGED lastCredentialTime

\* variant: the status output is not tested; staging always follows
GitStatusSucceeds_AlwaysStages ==
  /\ pc = "git_status"
  /\ \E d \in Durations : Elapse(d)
  /\ gitLog' = Append(gitLog, GitEntry("status", EmptyStr, 0, TRUE))
  /\ pc' = "git_add"
  /\ UNCHANGED outputLog
  /\ UNCHANGED <<ctx, apiLog, lastRefreshTime, wtr, Repo, thrown, Branch, Script>>
  /\ UNCHANGED lastCredentialTime

\* lines 29-39: git status resolves
GitStatusSucceeds ==
  /\ pc = "git_status"
  /\ \E d \in Durations : Elapse(d)
  /\ gitLog' = Append(gitLog, GitEntry("status", EmptyStr, 0, TRUE))
  /\ LET hasChanges == dirty
     IN  IF ~hasChanges
           THEN /\ outputLog' = Append(outputLog, <<"committed", <<"f","a","l","s","e">>>>)
                /\ pc' = "run_done"
           ELSE /\ pc' = "git_add"
                /\ UNCHANGED outputLog
  /\ UNCHANGED <<ctx, apiLog, lastRefreshTime, wtr, Repo, thrown, Branch, Script>>
  /\ UNCHANGED lastCredentialTime

\* lines 39-50: git add resolves; git commit is started
GitAddSucceeds ==
  /\ pc = "git_add"
  /\ \E d \in Durations : Elapse(d)
  /\ gitLog' = Append(gitLog, GitEntry("add", EmptyStr, 0, TRUE))
  /\ pc' = "git_commit"
  /\ UNCHANGED <<ctx, apiLog, lastRefreshTime, wtr, Repo, outputLog, thrown, Branch,
                 Script>>
  /\ UNCHANGED lastCredentialTime

\* variant: the push always targets HEAD
GitCommitSucceeds_PushesHead ==
  /\ pc = "git_commit"
  /\ \E d \in Durations : Elapse(d)
  /\ gitLog' = Append(gitLog, GitEntry("commit", EmptyStr, 0, TRUE))
  /\ dirty' = FALSE
  /\ unpushed' = unpushed + 1
  /\ wtr' = withTokenRefreshCall(PushOp("push", HeadRef), lastRefreshTime, now')
  /\ pc' = "git_push"
  /\ UNCHANGED <<ctx, apiLog, lastRefreshTime, localBranches, remotePushed, outputLog,
                 thrown, Branch, Script>>
  /\ UNCHANGED lastCredentialTime

\* lines 50-69: git commit resolves; the push is started
GitCommitSucceeds ==
  /\ pc = "git_commit"
  /\ \E d \in Durations : Elapse(d)
  /\ gitLog' = Append(gitLog, GitEntry("commit", EmptyStr, 0, TRUE))
  /\ dirty' = FALSE
  /\ unpushed' = unpushed + 1
  /\ wtr' = IF claudeBranchEnv # EmptyStr
              THEN withTokenRefreshCall(PushOp("push", claudeBranchEnv),
                                        lastRefreshTime, now')
              ELSE withTokenRefreshCall(PushOp("push", HeadRef),
                                        lastRefreshTime, now')
  /\ pc' = "git_push"
  /\ UNCHANGED <<ctx, apiLog, lastRefreshTime, localBranches, remotePushed, outputLog,
                 thrown, Branch, Script>>
  /\ UNCHANGED lastCredentialTime

\* lines 71-72
GitPushReturns ==
  /\ pc = "git_push"
  /\ wtr.pc = "returned"
  /\ outputLog' = Append(outputLog, <<"committed", <<"t","r","u","e">>>>)
  /\ wtr' = IdleCall
  /\ pc' = "run_done"
  /\ UNCHANGED <<ctx, apiLog, now, lastRefreshTime, Repo, gitLog, thrown, Branch,
                 Script>>
  /\ UNCHANGED lastCredentialTime

\* lines 73-77
GitPushThrows ==
  /\ pc = "git_push"
  /\ wtr.pc = "threw"
  /\ thrown' = wtr.error
  /\ wtr' = IdleCall
  /\ pc' = "run_failed"
  /\ UNCHANGED <<ctx, apiLog, now, lastRefreshTime, Repo, gitLog, outputLog,
                 Branch, Script>>
  /\ UNCHANGED lastCredentialTime

run ==
  \/ RunStart
  \/ GitConfigSucceeds
  \/ LocalCommandFails
  \/ GitStatusSucceeds
  \/ GitAddSucceeds
  \/ GitCommitSucceeds
  \/ GitPushReturns
  \/ GitPushThrows

Next == setupBranch \/ withTokenRefresh \/ run

Spec == Init /\ [][Next]_vars

(***************************************************************************)
(* A single withTokenRefresh call, started with any operation, any cell    *)
(* value and any clock.  The awaited refresh and operation calls end:      *)
(* weak fairness of the steps that resolve or reject them.                 *)
(***************************************************************************)
CallOps == {FetchOp(FeatBranch, 0), FetchOp(PrHeadBranch, 37), PushOp("push", HeadRef)}
CallCellValues == {0, 1, 2700000}
CallClocks == {0, 2699999, 2700000, 2700001}

InitCall ==
  /\ ctx = Context(EmptyStr, EmptyStr, PrefixClaude, 42,
                   [isPR |-> FALSE, prState |-> "NONE", commitCount |-> 0], FALSE)
  /\ now \in CallClocks
  /\ lastRefreshTime \in CallCellValues
  /\ lastCredentialTime = lastRefreshTime
  /\ pc = "call"
  /\ \E op \in CallOps : wtr = withTokenRefreshCall(op, lastRefreshTime, now)
  /\ checkedOut = MainBranch
  /\ localBranches = {}
  /\ remotePushed = {}
  /\ gitLog = <<>>
  /\ apiLog = <<>>
  /\ outputLog = <<>>
  /\ branchInfo = NoBranchInfo
  /\ thrown = NoError
  /\ newBranch = EmptyStr
  /\ sourceBranch = EmptyStr
  /\ dirty = FALSE
  /\ unpushed = 0
  /\ claudeBranchEnv = EmptyStr
  /\ runs = 0

CallSpec == InitCall /\ [][withTokenRefresh]_vars /\ WF_vars(withTokenRefresh)

(***************************************************************************)
(* Properties                                                              *)
(***************************************************************************)
CallInProgress == wtr.pc \in {"preflight", "op1", "recovery", "op2"}
CallEnded == wtr.pc \in {"returned", "threw"}
ThresholdMs == 2700000

KwAuthentication == <<"a","u","t","h","e","n","t","i","c","a","t","i","o","n">>
Kw401 == <<"4","0","1">>
Kw403 == <<"4","0","3">>
KwToken == <<"t","o","k","e","n">>
ContainsNoAuthWord(msg) ==
  /\ ~Includes(msg, KwAuthentication)
  /\ ~Includes(msg, Kw401)
  /\ ~Includes(msg, Kw403)
  /\ ~Includes(msg, KwToken)

\* C1: in every withTokenRefresh call the operation is invoked at most twice,
\* a second invocation follows exactly one failure of the first, and a call in
\* progress always ends once the awaited refresh and operation calls end
C1_NoRetryLoop ==
  /\ [](/\ wtr.opCalls <= 2
        /\ wtr.refreshCalls <= 2
        /\ (wtr.opCalls = 2 => wtr.firstError # NoError))
  /\ (CallInProgress ~> CallEnded)

\* a call whose first invocation failed was retried and the retry failed too
C1_Witness ==
  wtr.pc = "threw" /\ wtr.opCalls = 2 /\ wtr.error \in OperationFailures

\* C2: when the first invocation fails with a message containing none of
\* "authentication", "401", "403", "token", the operation is not invoked
\* again, no recovery refresh is made, the cell is left as it was at the
\* failure and the call fails with that same failure
C2_NonAuthFailureNotRetried ==
  (wtr.firstError # NoError /\ ContainsNoAuthWord(wtr.firstError)) =>
    /\ wtr.pc = "threw"
    /\ wtr.opCalls = 1
    /\ wtr.refreshCalls = (IF wtr.preflight THEN 1 ELSE 0)
    /\ lastRefreshTime = wtr.lastAtFailure
    /\ wtr.error = wtr.firstError

\* a fetch failed with a timeout after a pre-flight refresh
C2_Witness ==
  /\ wtr.pc = "threw"
  /\ wtr.firstError = MsgTimeout
  /\ wtr.preflight
  /\ wtr.op.cmd = "fetch"

\* the outcomes of the operation's invocations in the finished call
LastGitEntry == gitLog[Len(gitLog)]
FailedOn401ThenSucceeded ==
  /\ CallEnded
  /\ wtr.opCalls = 2
  /\ Includes(wtr.firstError, Kw401)
  /\ gitLog # <<>>
  /\ LastGitEntry.ok

\* C3 as stated: first invocation fails with "401", second succeeds: the call
\* returns the second result and exactly one refresh was triggered in the call
C3_ExactlyOneRefresh ==
  FailedOn401ThenSucceeded =>
    /\ wtr.pc = "returned"
    /\ wtr.result = 2
    /\ wtr.refreshCalls = 1

\* C3 amended: the call returns the second result; exactly one recovery
\* refresh follows the failure, in addition to the pre-flight refresh made
\* when the cell was 45 minutes old or older at the start of the call
C3_OneRecoveryRefresh ==
  FailedOn401ThenSucceeded =>
    /\ wtr.pc = "returned"
    /\ wtr.result = 2
    /\ wtr.refreshCalls =
         (IF wtr.startNow - wtr.startLast >= ThresholdMs THEN 2 ELSE 1)

\* a fresh call that failed with "401" and returned the retry's result
C3_Witness ==
  /\ FailedOn401ThenSucceeded
  /\ wtr.startNow - wtr.startLast < ThresholdMs
  /\ wtr.refreshCalls = 1
  /\ wtr.result = 2

\* C4: the operation is first invoked after a successful refresh that set the
\* cell to the current time when the cell was 45 minutes old or older at the
\* start of the call, and without any refresh when it was younger; so the
\* first invocation never starts with a cell 45 minutes old or older
C4_FreshAtFirstInvocation ==
  /\ (wtr.pc = "op1" =>
        wtr.refreshCalls = (IF wtr.startNow - wtr.startLast >= ThresholdMs
                              THEN 1 ELSE 0))
  /\ (wtr.opCalls >= 1 =>
        /\ (wtr.startNow - wtr.startLast >= ThresholdMs =>
              /\ wtr.lastAtFirstCall = wtr.nowAtFirstCall
              /\ wtr.nowAtFirstCall >= wtr.startNow)
        /\ (wtr.startNow - wtr.startLast < ThresholdMs =>
              /\ wtr.lastAtFirstCall = wtr.startLast
              /\ wtr.nowAtFirstCall = wtr.startNow)
        /\ wtr.nowAtFirstCall - wtr.lastAtFirstCall < ThresholdMs)
  /\ (wtr.pc = "op1" => now - lastRefreshTime < ThresholdMs)

\* the pre-flight refresh of a stale call took time and the operation started
C4_Witness ==
  /\ wtr.pc = "op1"
  /\ wtr.startNow - wtr.startLast >= ThresholdMs
  /\ lastRefreshTime = now
  /\ now > wtr.startNow

\* C5: shouldRefreshToken is true exactly when now - last >= 2,700,000 ms
C5_ThresholdInclusive ==
  wtr.pc # "idle" =>
    (wtr.preflight <=> (wtr.startNow - wtr.startLast >= 2700000))

\* a call started exactly 45 minutes after the last refresh
C5_Witness ==
  /\ wtr.pc # "idle"
  /\ wtr.startNow - wtr.startLast = 2700000
  /\ wtr.preflight

SynthesisContext ==
  /\ ctx.branch = EmptyStr
  /\ (~ctx.isPR \/ ctx.prState \in {"CLOSED", "MERGED"})
OpenPrContext ==
  /\ ctx.branch = EmptyStr
  /\ ctx.isPR
  /\ ctx.prState \notin {"CLOSED", "MERGED"}
\* no commit-and-push script has started: the state is setupBranch's own
DuringSetupBranch == runs = 0
ExpectedSource == IF ctx.baseBranch # EmptyStr THEN ctx.baseBranch ELSE DefaultBranch
Reported(call, status) == \E i \in DOMAIN apiLog : apiLog[i] = <<call, status>>
GitCommandsRun == {gitLog[i].cmd : i \in DOMAIN gitLog}

\* C6: with an explicit branch override whose remote lookup reports not-found,
\* setupBranch fails with the branch-not-found error naming the branch, and no
\* git fetch, checkout or push has been run
C6_BranchNotFoundNoGit ==
  (ctx.branch # EmptyStr /\ Reported("getBranch", 404)) =>
    /\ pc = "failed"
    /\ thrown = BranchNotFoundPrefix \o ctx.branch \o BranchNotFoundSuffix
    /\ gitLog = <<>>
    /\ wtr.pc = "idle"
    /\ localBranches = {}
    /\ remotePushed = {}
    /\ ~branchInfo.returned

\* the lookup of the override of an open pull request reported not-found
C6_Witness ==
  /\ ctx.branch = FeatBranch
  /\ ctx.prState = "OPEN"
  /\ Reported("getBranch", 404)
  /\ pc = "failed"

\* C7: after setupBranch returns, currentBranch is the branch the working
\* tree is checked out to
C7_CurrentBranchIsCheckedOut ==
  branchInfo.returned => branchInfo.currentBranch = checkedOut

\* C8: issue or closed/merged pull request, no branch override, signing
\* delegated: setupBranch creates no local branch, runs no checkout and no
\* push, and returns currentBranch = baseBranch = the source branch with
\* claudeBranch the generated name
C8_SigningDefersBranch ==
  (SynthesisContext /\ ctx.useCommitSigning /\ DuringSetupBranch) =>
    /\ gitLog = <<>>
    /\ wtr.pc = "idle"
    /\ localBranches = {}
    /\ remotePushed = {}
    /\ (branchInfo.returned =>
          /\ branchInfo.currentBranch = ExpectedSource
          /\ branchInfo.baseBranch = ExpectedSource
          /\ branchInfo.claudeBranch = newBranch
          /\ newBranch # EmptyStr
          /\ newBranch # ExpectedSource)

\* a merged pull request with a base-branch override was resolved
C8_Witness ==
  /\ ctx.useCommitSigning
  /\ ctx.prState = "MERGED"
  /\ ctx.baseBranch = DevBranch
  /\ DuringSetupBranch
  /\ branchInfo.returned
  /\ branchInfo.currentBranch = DevBranch

C10_OpenPrChecksOutHead ==
  (OpenPrContext /\ DuringSetupBranch) =>
    /\ localBranches = {}
    /\ remotePushed = {}
    /\ GitCommandsRun \subseteq {"fetch", "checkout"}
    /\ \A i \in DOMAIN gitLog : gitLog[i].branch = ctx.headRefName
    /\ (branchInfo.returned =>
          /\ branchInfo.baseBranch = ctx.baseRefName
          /\ branchInfo.currentBranch = ctx.headRefName
          /\ branchInfo.claudeBranch = EmptyStr
          /\ checkedOut = ctx.headRefName
          /\ Len(gitLog) >= 2
          /\ gitLog[Len(gitLog)].cmd = "checkout"
          /\ gitLog[Len(gitLog)].ok
          /\ gitLog[Len(gitLog) - 1].cmd = "fetch"
          /\ gitLog[Len(gitLog) - 1].ok)

\* an open pull request was resolved from another checkout, with a
\* base-branch override that is not the PR base
C10_Witness ==
  /\ OpenPrContext
  /\ ctx.baseBranch = DevBranch
  /\ DuringSetupBranch
  /\ branchInfo.returned
  /\ checkedOut = PrHeadBranch
  /\ branchInfo.baseBranch = RelBranch

OpenPr == ctx.isPR /\ ctx.prState \notin {"CLOSED", "MERGED"}
FetchEntries == {i \in DOMAIN gitLog : gitLog[i].cmd = "fetch"}
\* the larger of the commit count and 20, stated case by case
ExpectedDepth ==
  CASE ctx.commitCount <= 20 -> 20
    [] ctx.commitCount > 20 -> ctx.commitCount

\* C11: for an open pull request every fetch of setupBranch that is given a
\* depth uses max(commitCount, 20), and on the open pull-request path every
\* fetch is given one: 20 up to 20 commits, the commit count above
C11_FetchDepthIsMax ==
  (OpenPr /\ DuringSetupBranch) =>
    /\ \A i \in FetchEntries :
         gitLog[i].depth # 0 => gitLog[i].depth = ExpectedDepth
    /\ (ctx.branch = EmptyStr =>
          /\ \A i \in FetchEntries : gitLog[i].depth = ExpectedDepth
          /\ (pc = "pr_fetch" /\ wtr.pc # "idle" =>
                /\ wtr.op.cmd = "fetch"
                /\ wtr.op.depth = ExpectedDepth))

\* a pull request of 37 commits was fetched with depth 37
C11_Witness ==
  /\ OpenPrContext
  /\ ctx.commitCount = 37
  /\ DuringSetupBranch
  /\ \E i \in FetchEntries : gitLog[i].ok /\ gitLog[i].depth = 37

IsLowerCase(str) ==
  \A i \in DOMAIN str : \A k \in DOMAIN UpperCaseLetters : str[i] # UpperCaseLetters[k]
HasNoUnderscore(str) == \A i \in DOMAIN str : str[i] # "_"
\* prefix + ("pr" | "issue") + "-" + number + "-" + YYYYMMDD-HHMM for date d
UntruncatedName(d) ==
  ctx.branchPrefix \o (IF ctx.isPR THEN <<"p","r">> ELSE <<"i","s","s","u","e">>)
    \o <<"-">> \o NumToStr(ctx.entityNumber) \o <<"-">> \o Timestamp(d)

\* C12: every generated branch name is lower-case, has no underscore and is
\* at most 50 characters long, and is the lower-cased untruncated name when
\* that is at most 50 characters long
C12_GeneratedNameIsLabelSafe ==
  newBranch # EmptyStr =>
    /\ IsLowerCase(newBranch)
    /\ HasNoUnderscore(newBranch)
    /\ Len(newBranch) <= 50
    /\ \E d \in Dates :
         \/ Len(UntruncatedName(d)) > 50
         \/ /\ Len(newBranch) = Len(UntruncatedName(d))
            /\ \A i \in DOMAIN newBranch :
                 LowerChar(UntruncatedName(d)[i]) = newBranch[i]

RunEnded == pc \in {"run_done", "run_failed"}
LastOutput == outputLog[Len(outputLog)]
CommittedFalse == <<"committed", <<"f","a","l","s","e">>>>
CommittedTrue == <<"committed", <<"t","r","u","e">>>>

\* C13: after any run of the commit-and-push script either a commit was
\* created and pushed or no commit was created: no local commit is left
\* unpushed
C13_NoUnpushedCommit ==
  RunEnded => unpushed = 0

\* C14: when git status reports no pending changes the script reports
\* committed=false and returns at once: no git add, commit or push and no
\* credential refresh follows
C14_CleanTreeReturns ==
  /\ [](/\ (pc \in {"git_add", "git_commit"} => dirty)
        /\ (pc = "run_done" /\ LastGitEntry.cmd = "status" =>
              LastOutput = CommittedFalse /\ wtr.pc = "idle"))
  /\ [][(/\ pc = "git_status"
         /\ ~dirty
         /\ gitLog' = Append(gitLog, GitEntry("status", EmptyStr, 0, TRUE)))
        => (/\ pc' = "run_done"
            /\ outputLog' = Append(outputLog, CommittedFalse)
            /\ UNCHANGED <<wtr, lastRefreshTime, checkedOut, localBranches,
                           remotePushed, unpushed>>)]_vars

\* a run on a clean tree has returned
C14_Witness ==
  /\ pc = "run_done"
  /\ ~dirty
  /\ LastGitEntry = GitEntry("status", EmptyStr, 0, TRUE)
  /\ LastOutput = CommittedFalse

OutputSet(name, value) == \E i \in DOMAIN outputLog : outputLog[i] = <<name, value>>
OutputNamed(name) == \E i \in DOMAIN outputLog : outputLog[i][1] = name

\* C15: every successful setupBranch has reported the returned base branch as
\* the BASE_BRANCH output, and the CLAUDE_BRANCH output exactly when the
\* returned BranchInfo has a claudeBranch
C15_OutputsReported ==
  branchInfo.returned =>
    /\ OutputSet("BASE_BRANCH", branchInfo.baseBranch)
    /\ (OutputNamed("CLAUDE_BRANCH") <=> branchInfo.claudeBranch # EmptyStr)
    /\ (branchInfo.claudeBranch # EmptyStr =>
          OutputSet("CLAUDE_BRANCH", branchInfo.claudeBranch))

NoBranchWork ==
  /\ gitLog = <<>>
  /\ wtr.pc = "idle"
  /\ localBranches = {}
  /\ remotePushed = {}
  /\ outputLog = <<>>
  /\ ~branchInfo.returned

\* C16 as stated: on the synthesis path a not-found ref lookup makes
\* setupBranch fail with an error surfaced to its caller, with no branch,
\* checkout, push or output
C16_SourceMissingThrown ==
  (SynthesisContext /\ Reported("getRef", 404)) =>
    /\ pc = "failed"
    /\ thrown # NoError
    /\ NoBranchWork

\* C16 amended: on the synthesis path a not-found ref lookup makes setupBranch
\* end the process with exit status 1 from its catch clause, nothing being
\* thrown to its caller, with no branch, checkout, push or output
C16_SourceMissingExits ==
  (SynthesisContext /\ Reported("getRef", 404)) =>
    /\ pc = "exited"
    /\ thrown = NoError
    /\ NoBranchWork

\* the ref lookup of a base-branch override reported not-found, no signing
C16_Witness ==
  /\ SynthesisContext
  /\ ~ctx.useCommitSigning
  /\ ctx.baseBranch = DevBranch
  /\ Reported("getRef", 404)
  /\ pc = "exited"

\* C17: with an explicit branch that exists remotely, whatever the entity
\* kind and pull-request state, setupBranch fetches that branch through
\* withTokenRefresh and only then checks it out, touches no other branch,
\* creates none, and returns claudeBranch = currentBranch = that branch with
\* baseBranch = the base-branch override if given, else the default branch
C17_ExplicitBranchPath ==
  (ctx.branch # EmptyStr /\ DuringSetupBranch) =>
    /\ pc \notin {"pr_fetch", "repos_get", "getRef", "checkout_b", "push_new"}
    /\ localBranches = {}
    /\ remotePushed = {}
    /\ newBranch = EmptyStr
    /\ (gitLog # <<>> \/ wtr.pc # "idle" => Reported("getBranch", 200))
    /\ (pc = "explicit_fetch" =>
          wtr.pc # "idle" /\ wtr.op = FetchOp(ctx.branch, 0))
    /\ \A i \in DOMAIN gitLog :
         /\ gitLog[i].branch = ctx.branch
         /\ gitLog[i].cmd \in {"fetch", "checkout"}
         /\ (gitLog[i].cmd = "checkout" =>
               i > 1 /\ gitLog[i - 1] = GitEntry("fetch", ctx.branch, 0, TRUE))
    /\ (branchInfo.returned =>
          /\ branchInfo.claudeBranch = ctx.branch
          /\ branchInfo.currentBranch = ctx.branch
          /\ branchInfo.baseBranch = ExpectedSource
          /\ checkedOut = ctx.branch
          /\ LastGitEntry = GitEntry("checkout", ctx.branch, 0, TRUE))

\* the override of an open pull request was resolved, base = default branch
C17_Witness ==
  /\ ctx.branch = FeatBranch
  /\ ctx.prState = "OPEN"
  /\ ctx.baseBranch = EmptyStr
  /\ DuringSetupBranch
  /\ branchInfo.returned
  /\ branchInfo.baseBranch = MainBranch
  /\ checkedOut = FeatBranch

\* the git commands of the current commit-and-push run: the log from its
\* git config entry on
ConfigEntries == {i \in DOMAIN gitLog : gitLog[i].cmd = "config"}
RunLogStart == CHOOSE i \in ConfigEntries : \A j \in ConfigEntries : j <= i
RunLog == SubSeq(gitLog, RunLogStart, Len(gitLog))
RunLogged == runs >= 1 /\ pc # "git_config"
PushTarget == IF claudeBranchEnv # EmptyStr THEN claudeBranchEnv ELSE HeadRef
StepAt(i) ==
  CASE i = 1 -> "config"
    [] i = 2 -> "status"
    [] i = 3 -> "add"
    [] i = 4 -> "commit"
    [] OTHER -> "push"

\* C18: in a run with pending changes the steps are stage, commit, push in
\* that order; only the push runs through withTokenRefresh, to claudeBranch
\* when it is set and to HEAD otherwise; committed=true is reported only after
\* a successful push; a failed local step is not retried and no push follows
C18_StageCommitPushOrder ==
  /\ (runs >= 1 /\ wtr.pc # "idle" =>
        pc = "git_push" /\ wtr.op = PushOp("push", PushTarget))
  /\ (pc = "git_push" => wtr.pc # "idle")
  /\ (RunLogged =>
        LET runLog == RunLog
            last == Len(runLog)
        IN  /\ last <= 6
            /\ \A i \in 1..last :
                 LET entry == runLog[i]
                 IN  /\ entry.cmd = StepAt(i)
                     /\ (i < last => (entry.ok <=> entry.cmd # "push"))
                     /\ (entry.cmd = "push" => entry.branch = PushTarget)
                     /\ (entry.cmd # "push" /\ ~entry.ok => pc = "run_failed")
            /\ (pc = "run_done" =>
                  (LastOutput = CommittedTrue <=>
                     runLog[last] = GitEntry("push", PushTarget, 0, TRUE))))

\* a run pushed to the agent branch on the retry and reported committed=true
C18_Witness ==
  /\ RunLogged
  /\ pc = "run_done"
  /\ claudeBranchEnv # EmptyStr
  /\ Len(RunLog) = 6
  /\ LastOutput = CommittedTrue

RefreshFailedPrefix ==
  <<"T","o","k","e","n"," ","r","e","f","r","e","s","h"," ",
    "f","a","i","l","e","d",":"," ">>
\* the thrown error is the refresh failure and carries the cause's text
IsRefreshFailureWrapping(error, cause) ==
  /\ Len(error) > Len(RefreshFailedPrefix)
  /\ SubSeq(error, 1, Len(RefreshFailedPrefix)) = RefreshFailedPrefix
  /\ Includes(error, cause)

\* C19: when a refresh fails inside withTokenRefresh the cell keeps its value
\* and the operation is not invoked afterwards (never after a failed
\* pre-flight refresh, not again after a failed recovery refresh); the call
\* fails with the refresh failure wrapping its cause, not with the
\* operation's error
C19_FailedRefreshStopsCall ==
  /\ (wtr.refreshFailed = "preflight" =>
        /\ wtr.pc = "threw"
        /\ wtr.opCalls = 0
        /\ wtr.refreshCalls = 1
        /\ wtr.firstError = NoError
        /\ lastRefreshTime = wtr.startLast
        /\ IsRefreshFailureWrapping(wtr.error, wtr.refreshCause))
  /\ (wtr.refreshFailed = "recovery" =>
        /\ wtr.pc = "threw"
        /\ wtr.opCalls = 1
        /\ lastRefreshTime = wtr.lastAtFailure
        /\ IsRefreshFailureWrapping(wtr.error, wtr.refreshCause)
        /\ wtr.error # wtr.firstError)

\* the recovery refresh of a push that failed with "403" failed
C19_Witness ==
  /\ wtr.refreshFailed = "recovery"
  /\ wtr.firstError = Msg403
  /\ wtr.op.cmd = "push"
  /\ wtr.pc = "threw"

\* a call that has made no refresh of its own yet, or only the pre-flight one
AtCallStart == wtr.pc \in {"preflight", "op1"}

\* C20: one refresh timestamp serves every withTokenRefresh call of the task
\* run: at the start of each call it is the time of the most recent
\* successful credential refresh or acquisition
C20_CellIsLastRefreshTime ==
  AtCallStart => lastRefreshTime = lastCredentialTime

====
